---- MODULE Spec2Model ----
(***************************************************************************)
(* Firelet core (lib/flcore.py): the model store backed by a Git           *)
(* repository, the rule compiler, and the check / deploy orchestration of  *)
(* FireSet, GitFireSet and DemoGitFireSet.                                 *)
(*                                                                         *)
(* Conventions.  IPv4 addresses are integers below 2^31 (the CSV text of   *)
(* an address and of a mask length is taken as already parsed).  A port    *)
(* list "80,443" is the sequence of its comma-separated items.  A Python   *)
(* exception is a record [kind, at]: the exception class and the function  *)
(* that raised it.  A Python dict is a TLA+ function; the empty dict is    *)
(* the empty function <<>>.                                                *)
(***************************************************************************)
EXTENDS Integers, Sequences, FiniteSets, TLC

VARIABLES
    cls,           \* class of the FireSet instance: "GitFireSet" or "DemoGitFireSet"
    store,         \* in-memory tables: self.rules, .hosts, .hostgroups, .services, .networks
    disk,          \* the CSV files of the repository directory (working tree)
    commits,       \* Git history of the branch, oldest first; the last one is HEAD
    live,          \* hostname -> live ruleset (DemoGitFireSet: self._demo_rulelist)
    live_ifaces,   \* hostname -> iface -> <<ipv4 as (address, prefix), ipv6>> on the real hosts
    remote_confs,  \* self._remote_confs
    rd,            \* self.rd
    last,          \* the most recent call: its name, inputs, outcome
    prev           \* summary of the call before it

vars == <<cls, store, disk, commits, live, live_ifaces, remote_confs, rd, last, prev>>

---------------------------------------------------------------------------
(* Bounds of the model *)

\* longest rule list a compile-only run starts from
MaxRules == 2
\* longest Git history kept (save is refused by the model beyond it)
MaxCommits == 3
\* most rows a deletion-only run removes
MaxDeletes == 2

---------------------------------------------------------------------------
(* Python values *)

PyNone == [t |-> "None"]
Unset == [t |-> "unset"]
EmptyDict == <<>>

NoExc == [kind |-> "none", at |-> ""]
Exc(kind, at) == [kind |-> kind, at |-> at]

\* seq[i] with Python's index rules, as a 1-based position; 0 stands for IndexError
PyIndex(i, n) ==
    IF i >= 0 /\ i < n THEN i + 1
    ELSE IF i < 0 /\ i >= 0 - n THEN n + i + 1
    ELSE 0

\* dict(pairs): position of the last element carrying key k
LastWith(keys, k) ==
    CHOOSE i \in DOMAIN keys :
        keys[i] = k /\ \A j \in DOMAIN keys : keys[j] = k => j <= i

RECURSIVE Concat(_)
Concat(ss) == IF ss = <<>> THEN <<>> ELSE Head(ss) \o Concat(Tail(ss))

\* itertools.product(a, b): a is the outer loop
product(a, b) ==
    [k \in 1..(Len(a) * Len(b)) |->
        <<a[((k - 1) \div Len(b)) + 1], b[((k - 1) % Len(b)) + 1]>>]

---------------------------------------------------------------------------
(* IP address parsing *)

IP(a, b, c, d) == ((a * 256 + b) * 256 + c) * 256 + d

RECURSIVE Pow2(_)
Pow2(n) == IF n = 0 THEN 1 ELSE 2 * Pow2(n - 1)

\* IPNetwork('a/n').network; addresses stay below 2^31, so a prefix of 0 or 1
\* bits always masks to 0.0.0.0
net_addr(a, n) ==
    IF n <= 1 THEN 0 ELSE (a \div Pow2(32 - n)) * Pow2(32 - n)

---------------------------------------------------------------------------
(* Network objects *)

\* Host(r), with r = r[0:7] + [r[7:]] as Hosts.__init__ builds it
Host(r) ==
    [t |-> "Host", hostname |-> r[1], iface |-> r[2], ip_addr |-> r[3],
     masklen |-> r[4], local_fw |-> r[5], network_fw |-> r[6], mng |-> r[7],
     routed |-> SubSeq(r, 8, Len(r))]

\* Network(r): update() stores the real network address
Network(r) ==
    [t |-> "Network", name |-> r[1], ip_addr |-> net_addr(r[2], r[3]),
     masklen |-> r[3]]

HostGroup(li) ==
    [t |-> "HostGroup", name |-> li[1], childs |-> Tail(li)]

\* no item under the key 0
NoItem == "<unset>"

\* Bunch(enabled=r[0], name=r[1], ...); item0 is what the Bunch holds under
\* the key 0, which its construction by keywords never sets
RuleBunch(r) ==
    [enabled |-> r[1], name |-> r[2], src |-> r[3], src_serv |-> r[4],
     dst |-> r[5], dst_serv |-> r[6], action |-> r[7], log_level |-> r[8],
     desc |-> r[9], item0 |-> NoItem]

ServiceBunch(r) == [name |-> r[1], proto |-> r[2], ports |-> r[3]]

\* String representation for iptables: "ip" for a Host, "ip/masklen" for a Network
ipt(o) ==
    IF o.t = "Host" THEN <<o.ip_addr>> ELSE <<o.ip_addr, o.masklen>>

\* Host.mynetwork
mynetwork(h) == Network(<<"", h.ip_addr, h.masklen>>)

\* "other in o" for o a Host or a Network (Host.__contains__ is only ever
\* asked about a Host; anything that is neither class yields None, i.e. false)
Contains(o, other) ==
    IF o.t = "Host"
    THEN other.t = "Host" /\ other.ip_addr = o.ip_addr
    ELSE IF other.t = "Host"
         THEN net_addr(other.ip_addr, o.masklen) = o.ip_addr
         ELSE IF other.t = "Network"
              THEN /\ net_addr(other.ip_addr, o.masklen) = o.ip_addr
                   /\ other.masklen >= o.masklen
              ELSE FALSE

---------------------------------------------------------------------------
(* Host group flattening *)

\* _flatten putting the leaves of the first child after those of the others
JoinLeaves_reversed(first, rest) ==
    IF first.ok /\ rest.ok
    THEN [ok |-> TRUE, leaves |-> rest.leaves \o first.leaves]
    ELSE [ok |-> FALSE, leaves |-> <<>>]

\* sum(map(self._flatten, childs), []): the leaves of the first child
\* followed by those of the others, unless the recursion gave out
JoinLeaves(first, rest) ==
    IF first.ok /\ rest.ok
    THEN [ok |-> TRUE, leaves |-> first.leaves \o rest.leaves]
    ELSE [ok |-> FALSE, leaves |-> <<>>]

\* HostGroup._flatten over a list of child names; hbn is hg_by_name.  The
\* recursion of the source has no cycle check: a cycle ends in Python's
\* "maximum recursion depth exceeded" RuntimeError, which the model reaches
\* when the nesting is deeper than the number of groups.
RECURSIVE FlattenChilds(_, _, _)
FlattenChilds(childs, hbn, fuel) ==
    IF childs = <<>> THEN [ok |-> TRUE, leaves |-> <<>>]
    ELSE JoinLeaves(
             IF Head(childs) \in DOMAIN hbn
             THEN IF fuel = 0
                  THEN [ok |-> FALSE, leaves |-> <<>>]
                  ELSE FlattenChilds(hbn[Head(childs)], hbn, fuel - 1)
             ELSE [ok |-> TRUE, leaves |-> <<Head(childs)>>],
             FlattenChilds(Tail(childs), hbn, fuel))

\* map(res, li) of HostGroup.flat, f being the flattened names
flat_res(f, host_by_name, net_by_name) ==
    IF ~f.ok THEN [exc |-> Exc("RuntimeError", "_flatten"), objs |-> <<>>]
    ELSE IF \E i \in DOMAIN f.leaves :
                f.leaves[i] \notin (DOMAIN host_by_name \cup DOMAIN net_by_name)
    THEN [exc |-> Exc("Exception", "flat"), objs |-> <<>>]
    ELSE [exc |-> NoExc,
          objs |-> [i \in DOMAIN f.leaves |->
                      IF f.leaves[i] \in DOMAIN host_by_name
                      THEN host_by_name[f.leaves[i]]
                      ELSE net_by_name[f.leaves[i]]]]

\* HostGroup.flat: the leaves resolved to Host or Network instances
flat(hg, host_by_name, net_by_name, hg_by_name) ==
    flat_res(FlattenChilds(hg.childs, hg_by_name, Cardinality(DOMAIN hg_by_name)),
             host_by_name, net_by_name)

---------------------------------------------------------------------------
(* Emitted iptables lines.  A line is kept as the fields its text is built *)
(* from; two lines are the same text exactly when the records are equal.   *)

protocols == <<"IP", "TCP", "UDP", "OSPF", "IS-IS", "SCTP", "AH", "ESP">>

\* the protocol None of the service "*"
NoProto == "<None>"

\* str.lower over the protocol names
lower(p) ==
    CASE p = "IP" -> "ip" [] p = "TCP" -> "tcp" [] p = "UDP" -> "udp"
      [] p = "OSPF" -> "ospf" [] p = "IS-IS" -> "is-is" [] p = "SCTP" -> "sctp"
      [] p = "AH" -> "ah" [] p = "ESP" -> "esp" [] OTHER -> p

\* "%s --sport %s" % (ms, ports): the multiport flag and the port items
PortFrag(opt, ports) ==
    IF ports = <<>> THEN <<>>
    ELSE <<IF Len(ports) > 1 THEN "-m multiport" ELSE "", opt, ports>>

NoLevel == 0 - 1

Line(kind, iface, c, level, name, action) ==
    [kind |-> kind, iface |-> iface, proto |-> c.proto,
     src |-> IF c.src # PyNone THEN ipt(c.src) ELSE <<>>, sports |-> c.sports,
     dst |-> IF c.dst # PyNone THEN ipt(c.dst) ELSE <<>>, dports |-> c.dports,
     level |-> level, name |-> name, action |-> action]

NoMatch ==
    [proto |-> "", src |-> PyNone, sports |-> <<>>, dst |-> PyNone, dports |-> <<>>]

\* "-m state --state RELATED,ESTABLISHED -j ACCEPT"
StateAccept == Line("STATE_ACCEPT", "", NoMatch, NoLevel, "", "")
\* "-j DROP"
DropAll == Line("DROP_ALL", "", NoMatch, NoLevel, "", "")

\* "<iface><matcher> -j LOG --log-level <n> --log-prefix <name>"
LogLine(iface, c) == Line("LOG", iface, c, c.log_val, c.name, "")
\* "<matcher> -j <action>"
ActionLine(c) == Line("ACTION", "", c, NoLevel, "", c.action)

---------------------------------------------------------------------------
(* compile_rules: resolution dictionaries *)

HostKey(h) == h.hostname \o ":" \o h.iface
AddrMask(n) == <<n.ip_addr, n.masklen>>
ProtoPorts(sr) == <<sr.proto, sr.ports>>

\* dict(zip(keys, vals)): a later entry replaces an earlier one
DictOf(keys, vals) ==
    [k \in {keys[i] : i \in DOMAIN keys} |-> vals[LastWith(keys, k)]]

Names(seq) == [i \in DOMAIN seq |-> seq[i].name]

host_by_name_col_iface(st) ==
    DictOf([i \in DOMAIN st.hosts |-> HostKey(st.hosts[i])], st.hosts)
net_by_name(st) == DictOf(Names(st.networks), st.networks)
hg_by_name(st) ==
    DictOf(Names(st.hostgroups), [i \in DOMAIN st.hostgroups |-> st.hostgroups[i].childs])
net(st) ==
    DictOf(Names(st.networks), [i \in DOMAIN st.networks |-> AddrMask(st.networks[i])])

\* proto_port, with proto_port['*'] = (None, '')
proto_port(st) ==
    DictOf(Names(st.services) \o <<"*">>,
           [i \in DOMAIN st.services |-> ProtoPorts(st.services[i])]
               \o << <<NoProto, <<>>>> >>)

\* hg.flat(host_by_name_col_iface, net_by_name, hg_by_name) of every host
\* group, in table order
FlatWith(hostgroups, hbn, nbn, hgbn) ==
    [i \in DOMAIN hostgroups |-> flat(hostgroups[i], hbn, nbn, hgbn)]

FlatAll(st) ==
    FlatWith(st.hostgroups, host_by_name_col_iface(st), net_by_name(st), hg_by_name(st))

\* flat_hg = dict((hg.name, hg.flat(...)) for hg in self.hostgroups)
flat_hg(fl, hostgroups) ==
    DictOf(Names(hostgroups), [i \in DOMAIN fl |-> fl[i].objs])

\* the exception of the first host group whose flat() raises
FlatExc(fl) ==
    IF \A i \in DOMAIN fl : fl[i].exc = NoExc THEN NoExc
    ELSE fl[CHOOSE i \in DOMAIN fl :
               fl[i].exc # NoExc /\ \A j \in 1..(i - 1) : fl[j].exc = NoExc].exc

\* the dictionaries compile_rules builds before its loops
Dicts(st) ==
    [host_by_name_col_iface |-> host_by_name_col_iface(st),
     net_by_name |-> net_by_name(st),
     net |-> net(st),
     proto_port |-> proto_port(st),
     flat_hg |-> flat_hg(FlatAll(st), st.hostgroups),
     flat_exc |-> FlatExc(FlatAll(st))]

\* res(n): resolve flattened hostgroups, hosts and networks by name, None for "*"
res(n, d) ==
    IF n \in DOMAIN d.host_by_name_col_iface
    THEN [exc |-> NoExc, objs |-> <<d.host_by_name_col_iface[n]>>]
    ELSE IF n \in DOMAIN d.net_by_name
    THEN [exc |-> NoExc, objs |-> <<d.net_by_name[n]>>]
    ELSE IF n \in DOMAIN d.flat_hg
    THEN [exc |-> NoExc, objs |-> d.flat_hg[n]]
    ELSE IF n = "*"
    THEN [exc |-> NoExc, objs |-> <<PyNone>>]
    ELSE [exc |-> Exc("Alert", "res"), objs |-> <<>>]

---------------------------------------------------------------------------
(* compile_rules: one rule to its (proto, src, sports, dst, dports, ...) tuples *)

InProtocols(p) == p = NoProto \/ \E i \in DOMAIN protocols : protocols[i] = p

\* the rule loop without its tests on the protocols
ProtoExc_none(sproto, dproto) == NoExc

\* the two asserts on the protocols and the test that they agree
ProtoExc(sproto, dproto) ==
    IF ~InProtocols(sproto) \/ ~InProtocols(dproto)
    THEN Exc("AssertionError", "compile_rules")
    ELSE IF sproto # NoProto /\ dproto # NoProto /\ sproto # dproto
    THEN Exc("Alert", "compile_rules")
    ELSE NoExc

\* int(rule.log_level): the decimal strings a log level is written with;
\* any other string is a ValueError
Decimals == <<"0", "1", "2", "3", "4", "5", "6", "7">>
IsInt(s) == \E i \in DOMAIN Decimals : Decimals[i] = s
int(s) == (CHOOSE i \in DOMAIN Decimals : Decimals[i] = s) - 1

\* the exception the body of the rule loop raises for this rule, if any
RuleExc(rule, d) ==
    IF rule.action \notin {"ACCEPT", "DROP"} THEN Exc("AssertionError", "compile_rules")
    ELSE IF res(rule.src, d).exc # NoExc THEN res(rule.src, d).exc
    ELSE IF res(rule.dst, d).exc # NoExc THEN res(rule.dst, d).exc
    ELSE IF rule.src_serv \notin DOMAIN d.proto_port THEN Exc("KeyError", "compile_rules")
    ELSE IF rule.dst_serv \notin DOMAIN d.proto_port THEN Exc("KeyError", "compile_rules")
    ELSE IF ProtoExc(d.proto_port[rule.src_serv][1], d.proto_port[rule.dst_serv][1]) # NoExc
    THEN ProtoExc(d.proto_port[rule.src_serv][1], d.proto_port[rule.dst_serv][1])
    ELSE IF ~IsInt(rule.log_level) THEN Exc("Alert", "compile_rules")
    ELSE NoExc

\* proto = " -p %s" of the destination protocol, else of the source protocol
ProtoFrag(sproto, dproto) ==
    IF dproto # NoProto THEN lower(dproto)
    ELSE IF sproto # NoProto THEN lower(sproto) ELSE ""

\* for src, dst in product(srcs, dsts): compiled.append(...)
TuplesOf(rule, sp, dp, pairs) ==
    [k \in DOMAIN pairs |->
        [proto |-> ProtoFrag(sp[1], dp[1]), src |-> pairs[k][1],
         sports |-> PortFrag("--sport", sp[2]),
         dst |-> pairs[k][2], dports |-> PortFrag("--dport", dp[2]),
         log_val |-> int(rule.log_level), name |-> rule.name,
         action |-> rule.action]]

\* the tuples appended to "compiled" for one enabled rule that raised nothing
RuleTuples(rule, d) ==
    TuplesOf(rule, d.proto_port[rule.src_serv], d.proto_port[rule.dst_serv],
             product(res(rule.src, d).objs, res(rule.dst, d).objs))

\* the loop "for rule in self.rules" from rule i on, compiled being the list
\* appended to so far
RECURSIVE CompileFrom(_, _, _, _)
CompileFrom(i, rules, d, compiled) ==
    IF i > Len(rules) THEN [exc |-> NoExc, compiled |-> compiled]
    ELSE IF rules[i].enabled = "0" THEN CompileFrom(i + 1, rules, d, compiled)
    ELSE IF RuleExc(rules[i], d) # NoExc
    THEN [exc |-> RuleExc(rules[i], d), compiled |-> <<>>]
    ELSE CompileFrom(i + 1, rules, d, compiled \o RuleTuples(rules[i], d))

---------------------------------------------------------------------------
(* compile_rules: splicing the compiled tuples into per-host chains *)

\* compile_rules without the skip of a pair with equal addresses
SelfLoop_never(c) == FALSE

\* if src and dst and src.ipt() == dst.ipt(): continue
SelfLoop(c) == c.src # PyNone /\ c.dst # PyNone /\ ipt(c.src) = ipt(c.dst)

\* compile_rules without the skip of hosts that do not forward
FwOff_never(h) == FALSE

\* if h.network_fw in ('0', 0, False): continue
FwOff(h) == h.network_fw = "0"

\* "o in rnet" with rnet an (ip_addr, masklen) tuple of the dict net: tuple
\* membership compares o with a string and with an integer, and a Host or
\* Network instance (no __eq__) equals neither
InTuple(o, rnet) == FALSE

\* FireSet._oo_forwarded
oo_forwarded(src, dst, me, routed_nets) ==
    IF src = PyNone THEN TRUE
    ELSE IF me.ip_addr = src.ip_addr THEN FALSE
    ELSE IF Contains(mynetwork(me), src)
    THEN ~Contains(mynetwork(me), dst)
    ELSE \E i \in DOMAIN routed_nets :
            InTuple(src, routed_nets[i]) /\ ~InTuple(dst, routed_nets[i])

\* resolved_routed = [net[r] for r in h.routed]
resolved_routed(h, nt) == [i \in DOMAIN h.routed |-> nt[h.routed[i]]]

\* compile_rules appending every pair to the INPUT chain of every host
EmitINPUT_always(c, h) ==
    (IF c.log_val # 0 THEN <<LogLine("-i " \o h.iface, c)>> ELSE <<>>)
    \o <<ActionLine(c)>>

\* INPUT rules: where the host is in the destination
EmitINPUT(c, h) ==
    IF (c.dst # PyNone /\ Contains(c.dst, h)) \/ c.dst = PyNone
    THEN (IF c.log_val # 0 THEN <<LogLine("-i " \o h.iface, c)>> ELSE <<>>)
         \o <<ActionLine(c)>>
    ELSE <<>>

\* OUTPUT rules: where the host is in the source
EmitOUTPUT(c, h) ==
    IF (c.src # PyNone /\ Contains(c.src, h)) \/ c.src = PyNone
    THEN (IF c.log_val # 0 THEN <<LogLine("", c)>> ELSE <<>>)
         \o <<ActionLine(c)>>
    ELSE <<>>

\* FORWARD rules; the LOG line is appended whatever log_val is
EmitFORWARD(c, h, nt) ==
    IF FwOff(h) THEN <<>>
    ELSE IF oo_forwarded(c.src, c.dst, h, resolved_routed(h, nt))
    THEN <<LogLine("", c), ActionLine(c)>>
    ELSE <<>>

\* the lines one (compiled tuple, host row) iteration appends to a chain
Emit(chain, c, h, nt) ==
    IF SelfLoop(c) THEN <<>>
    ELSE CASE chain = "INPUT" -> EmitINPUT(c, h)
           [] chain = "OUTPUT" -> EmitOUTPUT(c, h)
           [] OTHER -> EmitFORWARD(c, h, nt)

\* the first lines of a chain, set when the hostname is first met
Preamble(chain, h) ==
    IF chain = "FORWARD" /\ h.network_fw # "1" THEN <<DropAll>> ELSE <<StateAccept>>

\* the iterations "for c in compiled: for h in self.hosts" from number k on,
\* restricted to the rows of hostname hn
RECURSIVE Splice(_, _, _, _, _, _)
Splice(chain, hn, compiled, hosts, nt, k) ==
    IF k > Len(compiled) * Len(hosts) THEN <<>>
    ELSE (IF hosts[((k - 1) % Len(hosts)) + 1].hostname = hn
          THEN Emit(chain, compiled[((k - 1) \div Len(hosts)) + 1],
                    hosts[((k - 1) % Len(hosts)) + 1], nt)
          ELSE <<>>)
         \o Splice(chain, hn, compiled, hosts, nt, k + 1)

FirstRow(hn, hosts) ==
    hosts[CHOOSE i \in DOMAIN hosts :
             /\ hosts[i].hostname = hn
             /\ \A j \in DOMAIN hosts : hosts[j].hostname = hn => i <= j]

Chain(chain, hn, compiled, hosts, nt) ==
    Preamble(chain, FirstRow(hn, hosts)) \o Splice(chain, hn, compiled, hosts, nt, 1)

\* rd: filled only inside the loop over the compiled tuples
SpliceAll(compiled, hosts, nt) ==
    IF compiled = <<>> THEN EmptyDict
    ELSE [hn \in {hosts[i].hostname : i \in DOMAIN hosts} |->
            [INPUT |-> Chain("INPUT", hn, compiled, hosts, nt),
             OUTPUT |-> Chain("OUTPUT", hn, compiled, hosts, nt),
             FORWARD |-> Chain("FORWARD", hn, compiled, hosts, nt)]]

\* net[r] raises KeyError for a routed name that is no network
RoutedKeyError(compiled, hosts, nt) ==
    \E k \in DOMAIN compiled, i \in DOMAIN hosts :
        /\ ~SelfLoop(compiled[k])
        /\ ~FwOff(hosts[i])
        /\ \E r \in DOMAIN hosts[i].routed : hosts[i].routed[r] \notin DOMAIN nt

\* compile_rules from 'Splicing ruleset...' on, cf being the outcome of the
\* rule loop
compile_rules_splice(cf, hosts, nt) ==
    IF cf.exc # NoExc THEN [exc |-> cf.exc, rd |-> EmptyDict]
    ELSE IF RoutedKeyError(cf.compiled, hosts, nt)
    THEN [exc |-> Exc("KeyError", "compile_rules"), rd |-> EmptyDict]
    ELSE [exc |-> NoExc, rd |-> SpliceAll(cf.compiled, hosts, nt)]

\* compile_rules from 'Building dictionaries...' on
compile_rules_build(st, d) ==
    IF d.flat_exc # NoExc THEN [exc |-> d.flat_exc, rd |-> EmptyDict]
    ELSE compile_rules_splice(CompileFrom(1, st.rules, d, <<>>), st.hosts, d.net)

\* FireSet.compile_rules; dirty is self.save_needed()
compile_rules(st, dirty) ==
    IF dirty
    THEN [exc |-> Exc("AssertionError", "compile_rules"), rd |-> EmptyDict]
    ELSE IF \E i \in DOMAIN st.rules : st.rules[i].enabled \notin {"1", "0"}
    THEN [exc |-> Exc("AssertionError", "compile_rules"), rd |-> EmptyDict]
    ELSE compile_rules_build(st, Dicts(st))

\* FireSet.compile
compile(st, dirty) == compile_rules(st, dirty)

\* compile_dict after "if not rset: rset = self.compile()".  The loop
\* "for hostname, iface, ... in hosts" unpacks a Host instance, which is not
\* iterable: TypeError on the first row.
compile_dict_rset(rset, hosts) ==
    IF rset.exc # NoExc THEN [exc |-> rset.exc, rd |-> EmptyDict]
    ELSE IF hosts # <<>>
    THEN [exc |-> Exc("TypeError", "compile_dict"), rd |-> EmptyDict]
    ELSE [exc |-> NoExc, rd |-> EmptyDict]

\* FireSet.compile_dict
compile_dict(st, dirty) ==
    IF dirty
    THEN [exc |-> Exc("AssertionError", "compile_dict"), rd |-> EmptyDict]
    ELSE compile_dict_rset(compile(st, dirty), st.hosts)

---------------------------------------------------------------------------
(* CSV files: rows to objects at load, objects to rows at save *)

Tables == {"rules", "hosts", "hostgroups", "services", "networks"}

RuleRow(x) ==
    <<x.enabled, x.name, x.src, x.src_serv, x.dst, x.dst_serv, x.action,
      x.log_level, x.desc>>
HostRow(x) ==
    <<x.hostname, x.iface, x.ip_addr, x.masklen, x.local_fw, x.network_fw, x.mng>>
    \o x.routed
HostGroupRow(x) == <<x.name>> \o x.childs
NetworkRow(x) == <<x.name, x.ip_addr, x.masklen>>
ServiceRow(x) == <<x.name, x.proto, x.ports>>

\* Rules(d), Hosts(d), HostGroups(d), Services(d), Networks(d) of __init__
Load(d) ==
    [rules |-> [i \in DOMAIN d.rules |-> RuleBunch(d.rules[i])],
     hosts |-> [i \in DOMAIN d.hosts |-> Host(d.hosts[i])],
     hostgroups |-> [i \in DOMAIN d.hostgroups |-> HostGroup(d.hostgroups[i])],
     services |-> [i \in DOMAIN d.services |-> ServiceBunch(d.services[i])],
     networks |-> [i \in DOMAIN d.networks |-> Network(d.networks[i])]]

\* git status: "nothing to commit" when the working tree equals HEAD
save_needed(d, head) == d # head

---------------------------------------------------------------------------
(* The models the runs start from *)

FwRow == <<"fw", "eth0", IP(1, 2, 3, 1), 24, "1", "1", "1">>
WebRow == <<"webserver", "eth0", IP(1, 2, 3, 10), 24, "1", "0", "1">>
GwEth0Row == <<"gw", "eth0", IP(1, 2, 3, 2), 24, "1", "0", "1">>
GwEth1Row == <<"gw", "eth1", IP(1, 2, 4, 1), 24, "1", "1", "0", "lan2">>

NetworkRows ==
    << <<"internet", 0, 0>>, <<"lan", IP(1, 2, 3, 0), 24>>,
       <<"lan2", IP(1, 2, 4, 0), 24>> >>

ServiceRows ==
    << <<"icmp", "IP", <<>>>>, <<"ssh", "TCP", <<"22">>>>,
       <<"web", "TCP", <<"80", "443">>>>, <<"dns", "UDP", <<"53">>>> >>

AdminsRow == <<"admins", "fw:eth0", "webserver:eth0">>
\* a host group with the name of a network
LanGroupRow == <<"lan", "fw:eth0", "webserver:eth0">>
\* a host group that lists itself
LoopRow == <<"loop", "fw:eth0", "loop">>

AllowPing == <<"1", "allow_ping", "internet", "*", "webserver:eth0", "icmp", "ACCEPT", "0", "">>
DropEverything == <<"1", "drop_all", "*", "*", "*", "*", "DROP", "4", "">>
SshAdmins == <<"1", "ssh_admins", "admins", "*", "webserver:eth0", "ssh", "ACCEPT", "1", "">>
WebOutOld == <<"0", "web_out_old", "lan", "*", "internet", "web", "ACCEPT", "2", "">>
WebOut == <<"1", "web_out", "webserver:eth0", "*", "internet", "web", "ACCEPT", "0", "">>

\* source service over TCP, destination service over UDP
BadProto == <<"1", "bad_proto", "*", "web", "*", "dns", "DROP", "0", "">>

\* from a directly connected network to anywhere
LanOut == <<"1", "lan_out", "lan", "*", "*", "web", "ACCEPT", "0", "">>

\* from each member of a host group to anywhere
AdminsOut == <<"1", "admins_out", "admins", "*", "*", "*", "ACCEPT", "0", "">>

RulePool ==
    {AllowPing, DropEverything, SshAdmins, WebOutOld, WebOut, BadProto, LanOut,
     AdminsOut}

\* a fleet: the hosts table and the host groups over it
Fleets ==
    {[hosts |-> <<>>, hostgroups |-> <<>>],
     [hosts |-> <<FwRow, WebRow>>, hostgroups |-> <<AdminsRow>>],
     [hosts |-> <<GwEth0Row, GwEth1Row, WebRow>>, hostgroups |-> <<>>],
     [hosts |-> <<FwRow, WebRow>>, hostgroups |-> <<AdminsRow, LoopRow>>],
     [hosts |-> <<FwRow, WebRow>>, hostgroups |-> <<AdminsRow, LanGroupRow>>]}

Repo(fleet, rules) ==
    [rules |-> rules, hosts |-> fleet.hosts, hostgroups |-> fleet.hostgroups,
     services |-> ServiceRows, networks |-> NetworkRows]

SeqsUpTo(S, n) == UNION {[1..k -> S] : k \in 0..n}

\* every rule list of up to MaxRules rules of the pool, over every fleet
CompileRepos == {Repo(f, r) : f \in Fleets, r \in SeqsUpTo(RulePool, MaxRules)}

\* no IPv6 address on an interface
NoAddr == 0 - 1

Hostnames(rows) == {rows[i][1] : i \in DOMAIN rows}

\* addressing of the real hosts when it agrees with the hosts table
MatchingIfaces(rows) ==
    [hn \in Hostnames(rows) |->
        [ifc \in {rows[i][2] : i \in {j \in DOMAIN rows : rows[j][1] = hn}} |->
            LET i == CHOOSE j \in DOMAIN rows : rows[j][1] = hn /\ rows[j][2] = ifc
            IN  <<<<rows[i][3], rows[i][4]>>, NoAddr>>]]

---------------------------------------------------------------------------
(* The fleet client SSHConnector (module flssh), as section 4.5 of the     *)
(* specification describes it: fetch, deliver, apply, one request a host.  *)

RECURSIVE SetToSeq(_)
SetToSeq(S) ==
    IF S = {} THEN <<>>
    ELSE LET x == CHOOSE y \in S : TRUE IN <<x>> \o SetToSeq(S \ {x})

Requests(op, hostnames) ==
    LET hs == SetToSeq(hostnames) IN [i \in DOMAIN hs |-> <<op, hs[i]>>]

Range(f) == {f[i] : i \in DOMAIN f}

\* sum(k.values(), []): the lines of every key of a per-host dict
Flattened(k) == Concat([i \in DOMAIN SetToSeq(DOMAIN k) |-> k[SetToSeq(DOMAIN k)[i]]])

\* SSHConnector(d).get_confs(): hostname -> Bunch(filter, ip_a_s)
SSH_get_confs(d, lv, ifs) ==
    [issued |-> Requests("fetch", DOMAIN d),
     confs |-> [hn \in DOMAIN d \cap DOMAIN ifs |->
                  [filter |-> lv[hn], ip_a_s |-> ifs[hn]]]]

\* sx.deliver_confs(rd): stage the new ruleset on each host
SSH_deliver_confs(rdv) == Requests("deliver", DOMAIN rdv)

\* sx.apply_remote_confs(): activate the staged ruleset on each host
SSH_apply_remote_confs(rdv, lv) ==
    [issued |-> Requests("apply", DOMAIN rdv),
     live |-> [hn \in DOMAIN lv \cup DOMAIN rdv |->
                 IF hn \in DOMAIN rdv THEN Flattened(rdv[hn]) ELSE lv[hn]]]

---------------------------------------------------------------------------
(* Steps of check and deploy.  A call is carried as a record x: the        *)
(* exception raised so far, the methods entered, the requests issued to    *)
(* hosts, and the attributes the call assigns.                             *)

Begin(self) ==
    [exc |-> NoExc, steps |-> <<>>, issued |-> <<>>,
     remote_confs |-> self.remote_confs, rd |-> self.rd, live |-> self.live,
     result |-> PyNone]

Enter(x, step) == [x EXCEPT !.steps = Append(@, step)]
Raise(x, e) == [x EXCEPT !.exc = e]

\* FireSet.deploy without its assert on save_needed
FireSet_deploy_guard_missing(dirty) == NoExc

\* assert not self.save_needed(), "Configuration must be saved before deployment."
FireSet_deploy_guard(dirty) ==
    IF dirty THEN Exc("AssertionError", "deploy") ELSE NoExc

\* if self.save_needed(): raise Alert, "Configuration must be saved before deployment."
DemoGitFireSet_deploy_guard(dirty) ==
    IF dirty THEN Exc("Alert", "deploy") ELSE NoExc

\* if self.save_needed(): raise Alert, "Configuration must be saved before check."
FireSet_check_guard(dirty) ==
    IF dirty THEN Exc("Alert", "check") ELSE NoExc

Step_compile(x, self) ==
    IF x.exc # NoExc THEN x
    ELSE Raise(Enter(x, "compile"), compile(self.store, self.dirty).exc)

\* FireSet._get_confs.  With a host in the table the first iteration reads the
\* local n before it is bound (UnboundLocalError).  With no host the
\* management map d is empty, and self._remote_confs[0] on the fetched dict,
\* whose keys are hostnames, is a KeyError.
FireSet_get_confs(x, self) ==
    IF x.exc # NoExc THEN x
    ELSE LET y == [Enter(x, "_get_confs") EXCEPT !.remote_confs = PyNone]
         IN  IF self.store.hosts # <<>>
             THEN Raise(y, Exc("UnboundLocalError", "_get_confs"))
             ELSE LET got == SSH_get_confs(EmptyDict, self.live, self.live_ifaces)
                  IN  Raise([y EXCEPT !.issued = @ \o got.issued,
                                      !.remote_confs = got.confs],
                            Exc("KeyError", "_get_confs"))

\* DemoGitFireSet._get_confs.  "for n, iface, ... in self.hosts" unpacks a Host
\* instance, which is not iterable: TypeError on the first row, before
\* self._remote_confs is assigned.
DemoGitFireSet_get_confs(x, self) ==
    IF x.exc # NoExc THEN x
    ELSE LET y == Enter(x, "_get_confs")
         IN  IF self.store.hosts # <<>>
             THEN Raise(y, Exc("TypeError", "_get_confs"))
             ELSE [y EXCEPT !.remote_confs = EmptyDict]

\* self._get_confs(keep_sessions=True), by the class of self
Step_get_confs(x, self) ==
    IF self.cls = "DemoGitFireSet"
    THEN DemoGitFireSet_get_confs(x, self)
    ELSE FireSet_get_confs(x, self)

\* what _check_ifaces raises for one row of the hosts table; the two
\* messages about an interface name the undefined iface: NameError.  An
\* interface is <<(ipv4, prefix), ipv6>>; split('/')[0] keeps the ipv4 part.
IfaceRowExc(h, confs) ==
    IF h.hostname \notin DOMAIN confs THEN Exc("Alert", "_check_ifaces")
    ELSE LET ip_a_s == confs[h.hostname].ip_a_s
         IN  IF h.iface \notin DOMAIN ip_a_s THEN Exc("NameError", "_check_ifaces")
             ELSE IF h.ip_addr \notin {ip_a_s[h.iface][2], ip_a_s[h.iface][1][1]}
             THEN Exc("NameError", "_check_ifaces")
             ELSE NoExc

\* FireSet._check_ifaces
check_ifaces(confs, hosts) ==
    IF confs \in {PyNone, Unset} THEN Exc("AssertionError", "_check_ifaces")
    ELSE LET bad == {i \in DOMAIN hosts : IfaceRowExc(hosts[i], confs) # NoExc}
         IN  IF bad = {} THEN NoExc
             ELSE IfaceRowExc(hosts[CHOOSE i \in bad : \A j \in bad : i <= j], confs)

Step_check_ifaces(x, self) ==
    IF x.exc # NoExc THEN x
    ELSE Raise(Enter(x, "_check_ifaces"), check_ifaces(x.remote_confs, self.store.hosts))

\* self.rd = r, unless the call raised
Assign_rd(y, r) ==
    IF r.exc # NoExc THEN Raise(y, r.exc) ELSE [y EXCEPT !.rd = r.rd]

Step_compile_dict(x, self) ==
    IF x.exc # NoExc THEN x
    ELSE Assign_rd(Enter(x, "compile_dict"), compile_dict(self.store, self.dirty))

\* FireSet._diff_table (the second definition, which replaces the first):
\* per host the rules to add, new - existing, and to delete, existing - new
diff_table(confs, rdv) ==
    LET hs == DOMAIN confs \cap DOMAIN rdv
        new_s(hn) == Range(Flattened(rdv[hn]))
        ex_s(hn) == Range(confs[hn].filter)
        tab == [hn \in hs |-> [add |-> new_s(hn) \ ex_s(hn), del |-> ex_s(hn) \ new_s(hn)]]
        html == {hn \in hs : tab[hn].add # {} \/ tab[hn].del # {}}
    IN  [up_to_date |-> html = {}, tables |-> [hn \in html |-> tab[hn]]]

Step_diff_table(x, self) ==
    IF x.exc # NoExc THEN x
    ELSE [Enter(x, "_diff_table") EXCEPT !.result = diff_table(x.remote_confs, x.rd)]

\* sx.deliver_confs(self.rd) then sx.apply_remote_confs() of FireSet.deploy
FireSet_deploy_finish(x, self) ==
    IF x.exc # NoExc THEN x
    ELSE LET y == [Enter(x, "deliver_confs") EXCEPT
                       !.issued = @ \o SSH_deliver_confs(x.rd)]
             ap == SSH_apply_remote_confs(x.rd, x.live)
         IN  [Enter(y, "apply_remote_confs") EXCEPT
                  !.issued = @ \o ap.issued, !.live = ap.live]

\* for n, k in self.rd.iteritems(): self._demo_rulelist[n] = sum(k.values(), [])
DemoGitFireSet_deploy_finish(x, self) ==
    IF x.exc # NoExc THEN x
    ELSE [Enter(x, "_demo_rulelist") EXCEPT
              !.live = [hn \in DOMAIN x.live \cup DOMAIN x.rd |->
                          IF hn \in DOMAIN x.rd THEN Flattened(x.rd[hn])
                          ELSE x.live[hn]]]

\* FireSet.check ending as DemoGitFireSet.deploy does, before the diff
FireSet_check_finish_installs(x, self) ==
    Step_diff_table(DemoGitFireSet_deploy_finish(x, self), self)

\* the end of FireSet.check: return self._diff_table()
FireSet_check_finish(x, self) == Step_diff_table(x, self)

CheckedAndCompiled(x, self) ==
    Step_compile_dict(Step_check_ifaces(Step_get_confs(Step_compile(x, self), self), self), self)

\* FireSet.deploy (GitFireSet inherits it)
FireSet_deploy(self) ==
    FireSet_deploy_finish(
        CheckedAndCompiled(
            Raise(Enter(Begin(self), "save_needed"), FireSet_deploy_guard(self.dirty)),
            self),
        self)

\* DemoGitFireSet.deploy
DemoGitFireSet_deploy(self) ==
    DemoGitFireSet_deploy_finish(
        CheckedAndCompiled(
            Raise(Enter(Begin(self), "save_needed"), DemoGitFireSet_deploy_guard(self.dirty)),
            self),
        self)

\* FireSet.check (both subclasses inherit it)
FireSet_check(self) ==
    FireSet_check_finish(
        CheckedAndCompiled(
            Raise(Enter(Begin(self), "save_needed"), FireSet_check_guard(self.dirty)),
            self),
        self)

---------------------------------------------------------------------------
(* Editing the rules, saving, rolling back *)

\* Rules.moveup: rules[rid], rules[rid - 1] = rules[rid - 1], rules[rid]
moveup(rules, rid) ==
    LET a == PyIndex(rid, Len(rules))
        b == PyIndex(rid - 1, Len(rules))
    IN  IF a = 0 \/ b = 0 THEN [ok |-> FALSE, list |-> rules]
        ELSE [ok |-> TRUE, list |-> [rules EXCEPT ![a] = rules[b], ![b] = rules[a]]]

\* Rules.movedown: rules[rid], rules[rid + 1] = rules[rid + 1], rules[rid]
movedown(rules, rid) ==
    LET a == PyIndex(rid, Len(rules))
        b == PyIndex(rid + 1, Len(rules))
    IN  IF a = 0 \/ b = 0 THEN [ok |-> FALSE, list |-> rules]
        ELSE [ok |-> TRUE, list |-> [rules EXCEPT ![a] = rules[b], ![b] = rules[a]]]

\* What "bunch[0] = value" does to a Bunch.  The class comes from flutils,
\* which is not part of the source tree: a class without __setitem__ raises
\* (TypeError for a new-style class, AttributeError for a classic one), and
\* one that keeps its items in a dict stores the value under the key 0,
\* which is none of the fields enabled, name, ...
SetItemOutcomes == {"TypeError", "AttributeError", "stored"}

\* Rules.rule_disable / Rules.rule_enable: self._list[rid][0] = value, then
\* self.save() unless the assignment raised
set_item0(rules, rid, value, outcome, at) ==
    LET a == PyIndex(rid, Len(rules))
    IN  IF a = 0
        THEN [exc |-> Exc("IndexError", at), saved |-> FALSE, list |-> rules]
        ELSE IF outcome # "stored"
        THEN [exc |-> Exc(outcome, at), saved |-> FALSE, list |-> rules]
        ELSE [exc |-> NoExc, saved |-> TRUE,
              list |-> [rules EXCEPT ![a].item0 = value]]

\* Rules.rule_disable
rule_disable(rules, rid, outcome) ==
    set_item0(rules, rid, "n", outcome, "rule_disable")

\* Rules.rule_enable
rule_enable(rules, rid, outcome) ==
    set_item0(rules, rid, "y", outcome, "rule_enable")

\* SmartTable.pop
pop(list, i) ==
    LET a == PyIndex(i, Len(list))
    IN  IF a = 0 THEN [ok |-> FALSE, list |-> list]
        ELSE [ok |-> TRUE,
              list |-> SubSeq(list, 1, a - 1) \o SubSeq(list, a + 1, Len(list))]

\* the rows <table>.save() hands to savecsv
SavedRows(table, list) ==
    CASE table = "rules" -> [i \in DOMAIN list |-> RuleRow(list[i])]
      [] table = "hosts" -> [i \in DOMAIN list |-> HostRow(list[i])]
      [] table = "networks" -> [i \in DOMAIN list |-> NetworkRow(list[i])]
      [] table = "services" -> [i \in DOMAIN list |-> ServiceRow(list[i])]
      [] OTHER -> [i \in DOMAIN list |-> HostGroupRow(list[i])]

\* GitFireSet._write.  The host groups go to savecsv as the table object
\* itself: the file is reopened for writing (emptied), and csv's writerows
\* then raises on the first HostGroup instance, which is no sequence.
write(table, list) ==
    IF table \in {"hosts", "networks", "services", "rules"}
    THEN [exc |-> NoExc, rows |-> SavedRows(table, list)]
    ELSE [exc |-> IF list = <<>> THEN NoExc ELSE Exc("Error", "savecsv"),
          rows |-> <<>>]

Head_(history) == history[Len(history)]

Me ==
    [cls |-> cls, store |-> store, dirty |-> save_needed(disk, Head_(commits).tree),
     remote_confs |-> remote_confs, rd |-> rd, live |-> live,
     live_ifaces |-> live_ifaces]

\* the record of a call: what was asked, on which state, and what came of it;
\* args holds the keyword arguments of a deploy, and is empty for the others
Call(op, exc, steps, issued, result) ==
    [op |-> op, args |-> <<>>, dirty |-> Me.dirty, exc |-> exc, steps |-> steps,
     issued |-> issued, result |-> result, live_before |-> live]

\* of the call before, only a deploy is remembered
Remember ==
    prev' = IF last.op = "deploy" THEN [op |-> "deploy", exc |-> last.exc]
            ELSE [op |-> "", exc |-> NoExc]

---------------------------------------------------------------------------
(* Initial states *)

\* the real hosts disagree with the first row of the hosts table: another
\* address on its interface, or no such interface
WrongAddress(rows) ==
    [MatchingIfaces(rows) EXCEPT
        ![rows[1][1]][rows[1][2]] = <<<<rows[1][3] + 1, rows[1][4]>>, NoAddr>>]
MissingIface(rows) ==
    [MatchingIfaces(rows) EXCEPT ![rows[1][1]] = EmptyDict]
\* the host of the first row does not answer: the fetch brings nothing for it
Unreachable(rows) ==
    [hn \in Hostnames(rows) \ {rows[1][1]} |-> MatchingIfaces(rows)[hn]]

IfaceChoices(rows) ==
    IF rows = <<>> THEN {MatchingIfaces(rows)}
    ELSE {MatchingIfaces(rows), WrongAddress(rows), MissingIface(rows),
          Unreachable(rows)}

\* GitFireSet.__init__ / DemoGitFireSet.__init__ on a freshly committed repository
InitOn(repos) ==
    /\ cls \in {"GitFireSet", "DemoGitFireSet"}
    /\ disk \in repos
    /\ store = Load(disk)
    /\ commits = <<[msg |-> "First commit.", tree |-> disk]>>
    /\ live = IF cls = "DemoGitFireSet" THEN EmptyDict
              ELSE [hn \in Hostnames(disk.hosts) |-> <<>>]
    /\ live_ifaces \in IF cls = "DemoGitFireSet" THEN {EmptyDict}
                       ELSE IfaceChoices(disk.hosts)
    /\ remote_confs = Unset
    /\ rd = Unset
    /\ last = [op |-> "__init__", args |-> <<>>, dirty |-> FALSE, exc |-> NoExc,
               steps |-> <<>>, issued |-> <<>>, result |-> PyNone,
               live_before |-> live]
    /\ prev = [op |-> "", exc |-> NoExc]

\* the rule lists an editing session starts from
SessionRules == <<DropEverything, WebOut>>
SessionFleets ==
    {[hosts |-> <<>>, hostgroups |-> <<>>],
     [hosts |-> <<FwRow, WebRow>>, hostgroups |-> <<AdminsRow>>]}
SessionRepos ==
    {Repo(f, r) : f \in SessionFleets, r \in {<<>>, SessionRules}}

Init == InitOn(SessionRepos)

CompileInit ==
    /\ InitOn(CompileRepos)
    /\ cls = "GitFireSet" => live_ifaces = MatchingIfaces(disk.hosts)

---------------------------------------------------------------------------
(* Actions: one per call *)

MoveUp(rid) ==
    LET r == moveup(store.rules, rid)
    IN  /\ store' = [store EXCEPT !.rules = r.list]
        /\ disk' = IF r.ok THEN [disk EXCEPT !.rules = SavedRows("rules", r.list)]
                   ELSE disk
        /\ last' = Call("moveup", NoExc, <<>>, <<>>, PyNone)
        /\ Remember
        /\ UNCHANGED <<cls, commits, live, live_ifaces, remote_confs, rd>>

MoveDown(rid) ==
    LET r == movedown(store.rules, rid)
    IN  /\ store' = [store EXCEPT !.rules = r.list]
        /\ disk' = IF r.ok THEN [disk EXCEPT !.rules = SavedRows("rules", r.list)]
                   ELSE disk
        /\ last' = Call("movedown", NoExc, <<>>, <<>>, PyNone)
        /\ Remember
        /\ UNCHANGED <<cls, commits, live, live_ifaces, remote_confs, rd>>

\* the outcome r of rule_disable or rule_enable put in place
RuleFlagged(op, rid, r) ==
    /\ store' = [store EXCEPT !.rules = r.list]
    /\ disk' = IF r.saved THEN [disk EXCEPT !.rules = SavedRows("rules", r.list)]
               ELSE disk
    /\ last' = Call(op, r.exc, <<>>, <<>>, PyNone)
    /\ Remember
    /\ UNCHANGED <<cls, commits, live, live_ifaces, remote_confs, rd>>

RuleDisable(rid, outcome) ==
    RuleFlagged("rule_disable", rid, rule_disable(store.rules, rid, outcome))

RuleEnable(rid, outcome) ==
    RuleFlagged("rule_enable", rid, rule_enable(store.rules, rid, outcome))

\* GitFireSet.delete
Delete(table, rid) ==
    LET p == pop(store[table], rid)
        w == write(table, p.list)
    IN  /\ store' = [store EXCEPT ![table] = p.list]
        /\ disk' = IF p.ok THEN [disk EXCEPT ![table] = w.rows] ELSE disk
        /\ last' = Call("delete",
                        IF p.ok THEN w.exc ELSE Exc("Alert", "delete"),
                        <<>>, <<>>, PyNone)
        /\ Remember
        /\ UNCHANGED <<cls, commits, live, live_ifaces, remote_confs, rd>>

\* GitFireSet.save: git add, git commit (which commits nothing on a clean tree)
Save(msg) ==
    /\ Me.dirty => Len(commits) < MaxCommits
    /\ commits' = IF Me.dirty
                  THEN Append(commits, [msg |-> IF msg = "" THEN "(no message)" ELSE msg,
                                        tree |-> disk])
                  ELSE commits
    /\ last' = Call("save", NoExc, <<>>, <<>>, PyNone)
    /\ Remember
    /\ UNCHANGED <<cls, store, disk, live, live_ifaces, remote_confs, rd>>

\* GitFireSet.rollback with an integer: git reset --hard, then
\* git reset --hard HEAD~n, which fails when there is no such commit
Rollback(n) ==
    LET k == Len(commits)
        found == n >= 0 /\ n < k
    IN  /\ commits' = IF found THEN SubSeq(commits, 1, k - n) ELSE commits
        /\ disk' = IF found THEN commits[k - n].tree ELSE commits[k].tree
        /\ last' = Call("rollback",
                        IF found THEN NoExc ELSE Exc("AssertionError", "rollback"),
                        <<>>, <<>>, PyNone)
        /\ Remember
        /\ UNCHANGED <<cls, store, live, live_ifaces, remote_confs, rd>>

\* GitFireSet.rollback with an argument int() refuses
RollbackNotInt ==
    /\ last' = Call("rollback", Exc("Alert", "rollback"), <<>>, <<>>, PyNone)
    /\ Remember
    /\ UNCHANGED <<cls, store, disk, commits, live, live_ifaces, remote_confs, rd>>

Returned(op, r) ==
    /\ last' = Call(op, r.exc, <<>>, <<>>, r.rd)
    /\ Remember
    /\ UNCHANGED <<cls, store, disk, commits, live, live_ifaces, remote_confs, rd>>

Compile == Returned("compile", compile(store, Me.dirty))

Finished(op, args, x) ==
    /\ remote_confs' = x.remote_confs
    /\ rd' = x.rd
    /\ live' = x.live
    /\ last' = [Call(op, x.exc, x.steps, x.issued, x.result) EXCEPT !.args = args]
    /\ Remember
    /\ UNCHANGED <<cls, store, disk, commits, live_ifaces>>

\* deploy(ignore_unreachables=..., replace_ruleset=False): neither body reads
\* the flag
Deploy(ignore_unreachables) ==
    Finished("deploy", <<ignore_unreachables>>,
             IF cls = "DemoGitFireSet" THEN DemoGitFireSet_deploy(Me)
             ELSE FireSet_deploy(Me))

Check == Finished("check", <<>>, FireSet_check(Me))

RuleIds == (0 - 1)..MaxRules

Next ==
    \/ \E rid \in RuleIds : MoveUp(rid)
    \/ \E rid \in RuleIds : MoveDown(rid)
    \/ \E rid \in RuleIds : Delete("rules", rid)
    \/ \E msg \in {"m1", "m2"} : Save(msg)
    \/ \E n \in (0 - 1)..MaxCommits : Rollback(n)
    \/ RollbackNotInt
    \/ Compile
    \/ \E ignore_unreachables \in BOOLEAN : Deploy(ignore_unreachables)
    \/ Check

Spec == Init /\ [][Next]_vars

\* an editing session on the rules alone: reordering, enabling, disabling,
\* and compiling what results
EditNext ==
    \/ \E rid \in RuleIds : MoveUp(rid)
    \/ \E rid \in RuleIds : MoveDown(rid)
    \/ \E rid \in RuleIds, outcome \in SetItemOutcomes : RuleDisable(rid, outcome)
    \/ \E rid \in RuleIds, outcome \in SetItemOutcomes : RuleEnable(rid, outcome)
    \/ Compile

EditSpec == Init /\ [][EditNext]_vars

\* deletions alone, on any of the five tables of any fleet, up to MaxDeletes
\* rows
DeleteInit ==
    /\ InitOn({Repo(f, SessionRules) : f \in Fleets})
    /\ cls = "GitFireSet" => live_ifaces = MatchingIfaces(disk.hosts)

\* how many rows the store holds, over the five tables
Rows(st) ==
    Len(st.rules) + Len(st.hosts) + Len(st.hostgroups) + Len(st.services)
        + Len(st.networks)

DeleteNext ==
    /\ Rows(commits[1].tree) - Rows(store) < MaxDeletes
    /\ \E table \in Tables, rid \in RuleIds : Delete(table, rid)

DeleteSpec == DeleteInit /\ [][DeleteNext]_vars

\* FireSet.compile_dict(), the call deploy assigns to self.rd
CompileDict == Returned("compile_dict", compile_dict(store, Me.dirty))

CompileNext == Compile \/ CompileDict

CompileSpec == CompileInit /\ [][CompileNext]_vars

---------------------------------------------------------------------------
(* Properties *)

Chains == {"INPUT", "OUTPUT", "FORWARD"}

Compiled == last.op = "compile" /\ last.exc = NoExc

\* the tuples the rule loop of compile_rules builds from the tables in memory
CompiledTuples == CompileFrom(1, store.rules, Dicts(store), <<>>).compiled

\* the saved model compiles
CompileOK == compile(store, FALSE).exc = NoExc

NoInstall(call) ==
    /\ \A i \in DOMAIN call.issued : call.issued[i][1] \notin {"deliver", "apply"}
    /\ \A i \in DOMAIN call.steps :
          call.steps[i] \notin {"deliver_confs", "apply_remote_confs", "_demo_rulelist"}

\* the real hosts disagree with some row of the hosts table
Mismatch ==
    \E i \in DOMAIN store.hosts :
        LET h == store.hosts[i]
        IN  \/ h.hostname \notin DOMAIN live_ifaces
            \/ h.iface \notin DOMAIN live_ifaces[h.hostname]
            \/ h.ip_addr \notin {live_ifaces[h.hostname][h.iface][1][1],
                                 live_ifaces[h.hostname][h.iface][2]}

\* C1 Save-gate: a deploy() called while save_needed() is true fails on its
\* save_needed test, of FireSet.deploy and of DemoGitFireSet.deploy alike,
\* having entered no other step: no request is issued to any host and every
\* live ruleset is as it was.
C1_SaveGate ==
    (last.op = "deploy" /\ last.dirty) =>
        /\ last.exc \in {Exc("AssertionError", "deploy"), Exc("Alert", "deploy")}
        /\ last.steps = <<"save_needed">>
        /\ last.issued = <<>>
        /\ live = last.live_before

C1_Witness ==
    /\ last.op = "deploy" /\ last.dirty /\ last.exc.at = "deploy"
    /\ store.hosts # <<>>

C3_InterfaceMismatch ==
    (last.op = "deploy" /\ cls = "GitFireSet" /\ ~last.dirty /\ CompileOK /\ Mismatch) =>
        /\ last.exc = Exc("Alert", "_check_ifaces")
        /\ NoInstall(last)

\* C4 check() does not apply: no run of check() delivers or applies anything,
\* and every live ruleset is after the call what it was before.
C4_CheckFrame ==
    last.op = "check" => (NoInstall(last) /\ live = last.live_before)

C4_Witness ==
    /\ last.op = "check" /\ last.exc = NoExc
    /\ last.steps[Len(last.steps)] = "_diff_table"

C6_RollbackRestores ==
    (last.op = "rollback" /\ last.exc = NoExc) =>
        /\ store = Load(Head_(commits).tree)
        /\ ~save_needed(disk, Head_(commits).tree)

\* C7 Preamble presence: the result of compile has, for every host of the
\* model whatever the rules, the three chains, INPUT and OUTPUT starting with
\* the stateful accept line, FORWARD with it if the host has network_fw true
\* and with "-j DROP" otherwise.
C7_PreamblePresence ==
    Compiled =>
        \A i \in DOMAIN store.hosts :
            LET h == store.hosts[i]
            IN  /\ h.hostname \in DOMAIN last.result
                /\ last.result[h.hostname].INPUT[1] = StateAccept
                /\ last.result[h.hostname].OUTPUT[1] = StateAccept
                /\ last.result[h.hostname].FORWARD[1] =
                       IF h.network_fw = "1" THEN StateAccept ELSE DropAll

\* C8 (as claimed) Forwarding gating: for every host row with network_fw
\* false the compiled FORWARD chain of its hostname is the preamble "-j DROP"
\* alone.
C8_ForwardGatingPerRow ==
    Compiled =>
        \A i \in DOMAIN store.hosts :
            (store.hosts[i].network_fw = "0"
             /\ store.hosts[i].hostname \in DOMAIN last.result)
            => last.result[store.hosts[i].hostname].FORWARD = <<DropAll>>

\* C8 (amended) Forwarding gating: for every hostname whose rows of the hosts
\* table all have network_fw false, the compiled FORWARD chain is the
\* preamble "-j DROP" alone, whatever the rules.
C8_ForwardGating ==
    Compiled =>
        \A hn \in DOMAIN last.result :
            (\A i \in DOMAIN store.hosts :
                store.hosts[i].hostname = hn => store.hosts[i].network_fw = "0")
            => last.result[hn].FORWARD = <<DropAll>>

\* a host that does not forward next to one that does and got FORWARD lines
C8_Witness ==
    /\ Compiled
    /\ \E hn, fw \in DOMAIN last.result :
          /\ \A i \in DOMAIN store.hosts :
                store.hosts[i].hostname = hn => store.hosts[i].network_fw = "0"
          /\ last.result[hn].FORWARD = <<DropAll>>
          /\ Len(last.result[fw].FORWARD) > 1

\* C9 LOG emission: every emission of a compiled pair on a host and a chain
\* is nothing, or the action line alone when the rule's log_level is 0, or
\* the LOG line immediately followed by the action line when it is greater.
C9_LogEmission ==
    Compiled =>
        \A k \in DOMAIN CompiledTuples, i \in DOMAIN store.hosts, ch \in Chains :
            LET c == CompiledTuples[k]
                e == Emit(ch, c, store.hosts[i], net(store))
            IN  \/ e = <<>>
                \/ c.log_val = 0 /\ e = <<ActionLine(c)>>
                \/ /\ c.log_val > 0 /\ Len(e) = 2
                   /\ e[1].kind = "LOG" /\ e[2] = ActionLine(c)

\* C10 No self-loop rules: no line of a compiled chain carries the same host
\* address as its source and as its destination.
C10_NoSelfLoop ==
    Compiled =>
        \A hn \in DOMAIN last.result, ch \in Chains :
            \A i \in DOMAIN last.result[hn][ch] :
                LET l == last.result[hn][ch][i]
                IN  Len(l.src) = 1 => l.src # l.dst

\* a rule whose resolved endpoints pair a host with itself was compiled
C10_Witness ==
    /\ Compiled
    /\ \E k \in DOMAIN CompiledTuples :
          LET c == CompiledTuples[k]
          IN  /\ c.src # PyNone /\ c.dst # PyNone
              /\ c.src.t = "Host" /\ c.dst.t = "Host"
              /\ c.src.ip_addr = c.dst.ip_addr

\* rule r is enabled and its two services name different protocols
ProtocolsDiffer(r, d) ==
    /\ r.enabled = "1"
    /\ r.src_serv \in DOMAIN d.proto_port /\ r.dst_serv \in DOMAIN d.proto_port
    /\ d.proto_port[r.src_serv][1] # NoProto
    /\ d.proto_port[r.dst_serv][1] # NoProto
    /\ d.proto_port[r.src_serv][1] # d.proto_port[r.dst_serv][1]

\* C11 Protocol mismatch is fatal: when an enabled rule, at any position, has
\* a source service and a destination service over different protocols,
\* compile fails and returns no host -> chain mapping at all; the failure is
\* the Alert of the protocol test of compile_rules whenever the host groups
\* flatten and no rule of the list raises another error.
C11_ProtocolMismatch ==
    (/\ last.op = "compile"
     /\ \E i \in DOMAIN store.rules : ProtocolsDiffer(store.rules[i], Dicts(store)))
    => /\ last.exc # NoExc
       /\ last.result = EmptyDict
       /\ (/\ Dicts(store).flat_exc = NoExc
           /\ \A j \in DOMAIN store.rules :
                 store.rules[j].enabled = "1" =>
                     RuleExc(store.rules[j], Dicts(store))
                         \in {NoExc, Exc("Alert", "compile_rules")})
          => last.exc = Exc("Alert", "compile_rules")

\* the mismatching rule comes second, after an enabled rule that compiles,
\* on a fleet with hosts
C11_Witness ==
    /\ last.op = "compile" /\ last.exc = Exc("Alert", "compile_rules")
    /\ store.hosts # <<>> /\ Len(store.rules) >= 2
    /\ store.rules[1].enabled = "1"
    /\ RuleExc(store.rules[1], Dicts(store)) = NoExc
    /\ ProtocolsDiffer(store.rules[2], Dicts(store))

\* the host groups reached from the names S in at most n steps down the
\* children lists
RECURSIVE GroupsBelow(_, _, _)
GroupsBelow(S, hgbn, n) ==
    IF n = 0 THEN S
    ELSE GroupsBelow(
             S \cup UNION {{hgbn[g][i] : i \in DOMAIN hgbn[g]} : g \in S \cap DOMAIN hgbn},
             hgbn, n - 1)

\* some host group is below itself
Cyclic(hgbn) ==
    \E g \in DOMAIN hgbn :
        g \in GroupsBelow({hgbn[g][i] : i \in DOMAIN hgbn[g]}, hgbn,
                          Cardinality(DOMAIN hgbn))

\* C12 Group flattening: on a host-group graph without a cycle every group
\* that flattens yields Host or Network leaves only; on a graph with a cycle
\* (a group that lists itself included) compile reports the cycle with the
\* error of the application (Alert).
C12_FlattenTerminates ==
    last.op = "compile" =>
        /\ Cyclic(hg_by_name(store)) => last.exc.kind = "Alert"
        /\ ~Cyclic(hg_by_name(store)) =>
              \A i \in DOMAIN store.hostgroups :
                  \A k \in DOMAIN FlatAll(store)[i].objs :
                      FlatAll(store)[i].objs[k].t \in {"Host", "Network"}

---------------------------------------------------------------------------
\* the hostnames of the hosts table that do not answer the fetch
Unreached == {store.hosts[i].hostname : i \in DOMAIN store.hosts} \ DOMAIN live_ifaces

\* every row of a host that answers agrees with the host's interfaces
ReachedMatch ==
    \A i \in DOMAIN store.hosts :
        LET h == store.hosts[i]
        IN  h.hostname \in DOMAIN live_ifaces =>
                /\ h.iface \in DOMAIN live_ifaces[h.hostname]
                /\ h.ip_addr \in {live_ifaces[h.hostname][h.iface][1][1],
                                  live_ifaces[h.hostname][h.iface][2]}

\* C13: a clean, compiling deploy on a fleet where one host does not answer
\* and the others agree with the hosts table: with ignore_unreachables on,
\* the ruleset is still delivered to and applied on every host that answers;
\* with it off the whole deploy fails and nothing is delivered.
C13_PeersNotAborted ==
    (/\ last.op = "deploy" /\ cls = "GitFireSet" /\ ~last.dirty /\ CompileOK
     /\ Unreached # {} /\ ReachedMatch)
    => IF last.args[1]
       THEN \A hn \in DOMAIN live_ifaces :
               \E a, b \in DOMAIN last.issued :
                   /\ last.issued[a] = <<"deliver", hn>>
                   /\ last.issued[b] = <<"apply", hn>>
       ELSE /\ last.exc # NoExc
            /\ \A a \in DOMAIN last.issued : last.issued[a][1] # "deliver"

---------------------------------------------------------------------------
\* "d is inside network n", a Wildcard d being inside every network
InsideOrWildcard(n, d) == d = PyNone \/ Contains(n, d)

\* the forwarding predicate as section 4.3 of the specification states it
forwarded(s, d, h, nt) ==
    IF s = PyNone THEN TRUE
    ELSE IF s.ip_addr = h.ip_addr THEN FALSE
    ELSE IF Contains(mynetwork(h), s) THEN ~InsideOrWildcard(mynetwork(h), d)
    ELSE \E i \in DOMAIN h.routed :
            LET r == Network(<<h.routed[i], nt[h.routed[i]][1], nt[h.routed[i]][2]>>)
            IN  Contains(r, s) /\ ~InsideOrWildcard(r, d)

\* the (compiled tuple, host row) iterations of hostname hn that are to add
\* an action line to FORWARD
ForwardedPairs(hn) ==
    {<<k, i>> \in (DOMAIN CompiledTuples) \X (DOMAIN store.hosts) :
        /\ store.hosts[i].hostname = hn
        /\ ~FwOff(store.hosts[i])
        /\ ~SelfLoop(CompiledTuples[k])
        /\ forwarded(CompiledTuples[k].src, CompiledTuples[k].dst,
                     store.hosts[i], net(store))}

ActionLines(chain) == {i \in DOMAIN chain : chain[i].kind = "ACTION"}

\* C14: after a compile that succeeded, the FORWARD chain of each host holds
\* one action line for each pair (s, d) of each of its rows with network_fw
\* on for which forwarded(s, d, h) holds, and no other action line.
C14_ForwardingPredicate ==
    Compiled =>
        \A hn \in DOMAIN last.result :
            Cardinality(ActionLines(last.result[hn].FORWARD))
                = Cardinality(ForwardedPairs(hn))

---------------------------------------------------------------------------
\* containment of a host row h in a resolved object o, as section 3 of the
\* specification states it
ContainedIn(h, o) ==
    IF o.t = "Host" THEN h.ip_addr = o.ip_addr
    ELSE net_addr(h.ip_addr, o.masklen) = o.ip_addr

\* the (compiled tuple, host row) iterations of hostname hn, not skipped,
\* whose action line is L and whose end o (source or destination) is the
\* Wildcard or contains the row
PlacedPairs(hn, L, end) ==
    {<<k, i>> \in (DOMAIN CompiledTuples) \X (DOMAIN store.hosts) :
        /\ store.hosts[i].hostname = hn
        /\ ~SelfLoop(CompiledTuples[k])
        /\ ActionLine(CompiledTuples[k]) = L
        /\ \/ CompiledTuples[k][end] = PyNone
           \/ ContainedIn(store.hosts[i], CompiledTuples[k][end])}

Occurrences(chain, L) == {i \in DOMAIN chain : chain[i] = L}

\* C15: after a compile that succeeded, the INPUT chain of each host holds
\* the action line of a pair (s, d) once for each row h of the host with d
\* the Wildcard or h contained in d, and not otherwise; the OUTPUT chain
\* holds it once for each row with s the Wildcard or h contained in s, and
\* not otherwise.
C15_InputOutputPlacement ==
    Compiled =>
        \A hn \in DOMAIN last.result, k \in DOMAIN CompiledTuples :
            LET L == ActionLine(CompiledTuples[k])
            IN  /\ Cardinality(Occurrences(last.result[hn].INPUT, L))
                      = Cardinality(PlacedPairs(hn, L, "dst"))
                /\ Cardinality(Occurrences(last.result[hn].OUTPUT, L))
                      = Cardinality(PlacedPairs(hn, L, "src"))

\* a pair with a named source and a named destination reaches the INPUT chain
\* of one host and not that of another, and the OUTPUT chain of the latter
C15_Witness ==
    /\ Compiled
    /\ \E hn, other \in DOMAIN last.result, k \in DOMAIN CompiledTuples :
          LET c == CompiledTuples[k]
          IN  /\ c.src # PyNone /\ c.dst # PyNone /\ ~SelfLoop(c)
              /\ Occurrences(last.result[hn].INPUT, ActionLine(c)) # {}
              /\ Occurrences(last.result[other].INPUT, ActionLine(c)) = {}
              /\ Occurrences(last.result[other].OUTPUT, ActionLine(c)) # {}

---------------------------------------------------------------------------
\* the lines the pair c adds to a chain of hostname hn, its rows taken in the
\* order of the hosts table
RowsLines(chain, hn, c) ==
    Concat([i \in DOMAIN store.hosts |->
               IF store.hosts[i].hostname = hn
               THEN Emit(chain, c, store.hosts[i], net(store))
               ELSE <<>>])

\* the compiled tuple of rule for the pair (s, d)
PairTuple(rule, s, d) ==
    TuplesOf(rule, proto_port(store)[rule.src_serv],
             proto_port(store)[rule.dst_serv], << <<s, d>> >>)[1]

\* the lines of one rule: sources in the outer loop, destinations in the inner
RuleLines(chain, hn, rule) ==
    LET srcs == res(rule.src, Dicts(store)).objs
        dsts == res(rule.dst, Dicts(store)).objs
    IN  Concat([a \in DOMAIN srcs |->
                   Concat([b \in DOMAIN dsts |->
                              RowsLines(chain, hn,
                                        PairTuple(rule, srcs[a], dsts[b]))])])

\* the lines of the enabled rules, rule after rule as declared
DeclaredOrder(chain, hn) ==
    Concat([i \in DOMAIN store.rules |->
               IF store.rules[i].enabled = "1"
               THEN RuleLines(chain, hn, store.rules[i])
               ELSE <<>>])

\* a name that is a host (as host:iface) or a network
LeafNames == DOMAIN host_by_name_col_iface(store) \cup DOMAIN net_by_name(store)
Leaf(name) ==
    IF name \in DOMAIN host_by_name_col_iface(store)
    THEN host_by_name_col_iface(store)[name]
    ELSE net_by_name(store)[name]

\* C16: after a compile that succeeded, every chain of every host is its
\* preamble followed by the lines of the enabled rules in declared rule
\* order, those of one rule in the order of the cartesian product of its
\* resolved sources and destinations; a disabled rule adds no line; a host
\* group of hosts and networks resolves to them in declared child order.
C16_EmissionOrder ==
    Compiled =>
        /\ \A hn \in DOMAIN last.result, ch \in Chains :
              Tail(last.result[hn][ch]) = DeclaredOrder(ch, hn)
        /\ \A g \in DOMAIN store.hostgroups :
              (\A i \in DOMAIN store.hostgroups[g].childs :
                    store.hostgroups[g].childs[i] \in LeafNames)
              => Dicts(store).flat_hg[store.hostgroups[g].name]
                    = [i \in DOMAIN store.hostgroups[g].childs |->
                          Leaf(store.hostgroups[g].childs[i])]

\* two enabled rules reach the same chain, the first with the two members of
\* a host group as sources
C16_Witness ==
    /\ Compiled
    /\ Len(store.rules) = 2
    /\ \E hn \in DOMAIN last.result :
          /\ Cardinality(ActionLines(RuleLines("INPUT", hn, store.rules[1]))) >= 2
          /\ RuleLines("INPUT", hn, store.rules[2]) # <<>>
          /\ RuleLines("INPUT", hn, store.rules[1]) # RuleLines("INPUT", hn, store.rules[2])

---------------------------------------------------------------------------
\* the lines of every chain compile returns for hostname hn
HostLines(hn) ==
    UNION {Range(compile(store, FALSE).rd[hn][ch]) : ch \in Chains}

\* the text of line l names the address ip as its source or its destination
Mentions(l, ip) == l.src = ip \/ l.dst = ip

\* C17: on a saved model that compiles, the ruleset compile_dict builds for
\* deploy has, for every row (host, iface) of the hosts table, a list of
\* lines, each of them a line compile returns for that host that mentions
\* the address of the interface.
C17_DictProjection ==
    (last.op = "compile_dict" /\ CompileOK /\ store.hosts # <<>>)
    => /\ last.exc = NoExc
       /\ \A i \in DOMAIN store.hosts :
             LET h == store.hosts[i]
             IN  /\ h.hostname \in DOMAIN last.result
                 /\ h.iface \in DOMAIN last.result[h.hostname]
                 /\ \A k \in DOMAIN last.result[h.hostname][h.iface] :
                       LET l == last.result[h.hostname][h.iface][k]
                       IN  l \in HostLines(h.hostname) /\ Mentions(l, h.ip_addr)

---------------------------------------------------------------------------
\* in how many of the three namespaces the name n is found
Namespaces(n) ==
    {ns \in {"host", "network", "hostgroup"} :
        \/ ns = "host" /\ n \in DOMAIN host_by_name_col_iface(store)
        \/ ns = "network" /\ n \in DOMAIN net_by_name(store)
        \/ ns = "hostgroup" /\ n \in DOMAIN hg_by_name(store)}

\* the names the enabled rules use as source or destination
UsedNames ==
    {store.rules[i].src : i \in {j \in DOMAIN store.rules : store.rules[j].enabled = "1"}}
    \cup {store.rules[i].dst : i \in {j \in DOMAIN store.rules : store.rules[j].enabled = "1"}}

\* C18: a compile whose enabled rules use a name found in more than one of
\* the namespaces (host:iface keys, network names, host group names) fails
\* with an Alert and returns nothing; so does one that uses a name, other
\* than "*", found in none; a name found in exactly one resolves to that
\* entity and "*" to the single Wildcard.
C18_AmbiguousNames ==
    (last.op = "compile" /\ Dicts(store).flat_exc = NoExc) =>
        /\ (\E n \in UsedNames : Cardinality(Namespaces(n)) > 1)
              => (last.exc.kind = "Alert" /\ last.result = EmptyDict)
        /\ (\E n \in UsedNames : Namespaces(n) = {} /\ n # "*")
              => (last.exc.kind = "Alert" /\ last.result = EmptyDict)
        /\ \A n \in UsedNames :
              /\ Namespaces(n) = {"host"} =>
                    res(n, Dicts(store)).objs = <<host_by_name_col_iface(store)[n]>>
              /\ Namespaces(n) = {"network"} =>
                    res(n, Dicts(store)).objs = <<net_by_name(store)[n]>>
              /\ Namespaces(n) = {"hostgroup"} =>
                    res(n, Dicts(store)).objs = Dicts(store).flat_hg[n]
              /\ (Namespaces(n) = {} /\ n = "*") =>
                    res(n, Dicts(store)).objs = <<PyNone>>

---------------------------------------------------------------------------
\* the rows of rules.csv for the rule list, with the first field of the rule
\* at the 0-based position rid set to flag
Flagged(rules, rid, flag) ==
    [SavedRows("rules", rules) EXCEPT ![rid + 1][1] = flag]

\* C19: rule_disable(rid) on a rule of the list leaves that rule with the
\* enabled field "0" and rule_enable(rid) with "1", neither fails, and every
\* other field and every other rule is as before.
C19_EnabledField ==
    [][\A rid \in RuleIds, outcome \in SetItemOutcomes :
          (0 <= rid /\ rid < Len(store.rules)) =>
              /\ RuleDisable(rid, outcome) =>
                    /\ last'.exc = NoExc
                    /\ SavedRows("rules", store'.rules) = Flagged(store.rules, rid, "0")
              /\ RuleEnable(rid, outcome) =>
                    /\ last'.exc = NoExc
                    /\ SavedRows("rules", store'.rules) = Flagged(store.rules, rid, "1")]_vars

---------------------------------------------------------------------------
\* the rule list with the rules at the 0-based positions i and j exchanged
Exchanged(rules, i, j) ==
    [rules EXCEPT ![i + 1] = rules[j + 1], ![j + 1] = rules[i + 1]]

\* C20: moveup(rid) exchanges rule rid with rule rid - 1 when
\* 1 <= rid < len and movedown(rid) exchanges rule rid with rule rid + 1
\* when 0 <= rid < len - 1, and for any other rid the call fails and leaves
\* the rule list as it was.
C20_ReorderBounds ==
    [][\A rid \in RuleIds :
          /\ MoveUp(rid) =>
                IF 1 <= rid /\ rid < Len(store.rules)
                THEN /\ store'.rules = Exchanged(store.rules, rid, rid - 1)
                     /\ last'.exc = NoExc
                ELSE /\ store'.rules = store.rules
                     /\ last'.exc # NoExc
          /\ MoveDown(rid) =>
                IF 0 <= rid /\ rid < Len(store.rules) - 1
                THEN /\ store'.rules = Exchanged(store.rules, rid, rid + 1)
                     /\ last'.exc = NoExc
                ELSE /\ store'.rules = store.rules
                     /\ last'.exc # NoExc]_vars

---------------------------------------------------------------------------
\* the list without the element at the 0-based position rid
Removed(list, rid) == SubSeq(list, 1, rid) \o SubSeq(list, rid + 2, Len(list))

\* C21: delete(table, rid) with 0 <= rid < len removes exactly row rid of
\* that table, in memory and in the file, keeps the other rows in their
\* order and the other four tables as they were, and does not fail; with
\* rid >= len it fails and leaves the store and the files as they were.
C21_DeleteOneRow ==
    [][\A table \in Tables, rid \in RuleIds :
          (Delete(table, rid) /\ rid >= 0) =>
              IF rid < Len(store[table])
              THEN /\ last'.exc = NoExc
                   /\ store'[table] = Removed(store[table], rid)
                   /\ disk'[table] = Removed(disk[table], rid)
                   /\ \A t \in Tables \ {table} :
                         store'[t] = store[t] /\ disk'[t] = disk[t]
              ELSE /\ last'.exc # NoExc
                   /\ store' = store
                   /\ disk' = disk]_vars


====
